---- MODULE Spec2Model ----
(***************************************************************************)
(* Model of the mini N64 object exporter: the numeric formatters, the      *)
(* coordinate transform, the value model, the per-object / per-frame       *)
(* aggregator, the C emitter (CVar) and the two export operators.          *)
(*                                                                         *)
(* Floats are modelled in fixed point: a modelled float is an integer      *)
(* count of halves (Fx(3) is 3.0, Fx(3) + 1 is 3.5), so that rounding and  *)
(* the strict range comparisons of the formatters keep their meaning.      *)
(***************************************************************************)
EXTENDS Integers, Sequences, FiniteSets, TLC

VARIABLES
    op,            \* which entry point runs: "fmt", "vec", "anim", "obj"
    pc,            \* position inside the running entry point
    call,          \* argument record of a pure-function call
    ret,           \* its result
    exporter,      \* the exporter property group of the running operator
    scene,         \* host scene: frame range, frame cursor, unit scale, objects
    idx,           \* loop index of the running export (frame or export object)
    all_frames,    \* anim_exporter: list of ObjectDataGatherer, one per frame
    final,         \* lines of the source file assembled so far
    final_header,  \* lines of the header file assembled so far
    cvars,         \* the CVar objects emitted so far (after to_c)
    files,         \* files written by this invocation: name -> text lines
    error          \* exception raised by the invocation, "" if none

vars == <<op, pc, call, ret, exporter, scene, idx, all_frames, final,
          final_header, cvars, files, error>>

(***************************************************************************)
(* Fixed point helpers                                                     *)
(***************************************************************************)
Fx(n) == 2 * n

Abs(n) == IF n < 0 THEN -n ELSE n

\* Python's round() of the float h/2: round half to even
RoundFx(h) ==
    LET q == h \div 2
        r == h % 2
    IN  IF r = 0 THEN q
        ELSE IF q % 2 = 0 THEN q ELSE q + 1

(***************************************************************************)
(* String rendering                                                        *)
(***************************************************************************)
DecDigits == <<"0", "1", "2", "3", "4", "5", "6", "7", "8", "9">>
HexDigits == <<"0", "1", "2", "3", "4", "5", "6", "7", "8", "9",
               "a", "b", "c", "d", "e", "f">>

RECURSIVE NatStr(_, _, _)
\* digits of the natural number n in the given base
NatStr(n, base, digits) ==
    IF n < base THEN digits[n + 1]
    ELSE NatStr(n \div base, base, digits) \o digits[(n % base) + 1]

RECURSIVE Repeat(_, _)
Repeat(s, n) == IF n <= 0 THEN "" ELSE s \o Repeat(s, n - 1)

\* right-justify s in a field of the given width (Python's default for numbers)
RJust(s, width) == Repeat(" ", width - Len(s)) \o s

\* Python's f'{n:8}' for an int
DecStr(n, width) ==
    RJust((IF n < 0 THEN "-" ELSE "") \o NatStr(Abs(n), 10, DecDigits), width)

\* Python's f'{n:#0{padding}x}' for an int: sign, 0x, zero fill up to the width
HexStr(n, padding) ==
    LET sign == IF n < 0 THEN "-" ELSE ""
        digs == NatStr(Abs(n), 16, HexDigits)
    IN  sign \o "0x" \o Repeat("0", padding - Len(sign) - 2 - Len(digs)) \o digs

tabs(n) == Repeat("    ", n)

(***************************************************************************)
(* Numeric formatters.  A formatter returns [ok, s, n]: ok is FALSE when   *)
(* it raises ValueError, s is the literal, n the integer the literal       *)
(* denotes (0 for floats and raw literals).                                *)
(***************************************************************************)
S16_MIN == -32768
S16_MAX == 32767

Raise == [ok |-> FALSE, s |-> "", n |-> 0]
Lit(str, int) == [ok |-> TRUE, s |-> str, n |-> int]

\* f'{(val * scale):16.10f}f'
format_f32(val, scale, fmt_hex) ==
    IF fmt_hex THEN Raise
    ELSE LET x    == val * scale
             ip   == Abs(x) \div 2
             frac == IF Abs(x) % 2 = 1 THEN "5000000000" ELSE "0000000000"
             body == (IF x < 0 THEN "-" ELSE "")
                       \o NatStr(ip, 10, DecDigits) \o "." \o frac
         IN  Lit(RJust(body, 16) \o "f", 0)

format_integer(val, scale, fmt_hex) ==
    LET n == RoundFx(val * scale)
    IN  IF fmt_hex
        THEN LET padding == IF Abs(val) > Fx(32768) THEN 6 + 4 ELSE 6
             IN  Lit(HexStr(n, padding), n)
        ELSE Lit(DecStr(n, 8), n)

format_s32(val, scale, fmt_hex) == format_integer(val, scale, fmt_hex)

\* variant: the upper bound itself is rejected
format_s16_strict_max(val, scale, fmt_hex) ==
    IF val < Fx(S16_MIN) THEN Raise
    ELSE IF val >= Fx(S16_MAX) THEN Raise
    ELSE format_integer(val, scale, fmt_hex)

format_s16(val, scale, fmt_hex) ==
    IF val < Fx(S16_MIN) THEN Raise
    ELSE IF val > Fx(S16_MAX) THEN Raise
    ELSE format_integer(val, scale, fmt_hex)

format_literal(val, scale, fmt_hex) == Lit(val, 0)

\* round half to even of the rational num / den, den > 0
RoundRat(num, den) ==
    LET q == num \div den
        r == num % den
    IN  IF 2 * r < den THEN q
        ELSE IF 2 * r > den THEN q + 1
        ELSE IF q % 2 = 0 THEN q ELSE q + 1

\* rad_to_s16: degrees(x) * 0x2000 / 45; the angle is carried in half degrees,
\* the result is the exact rational [num, den]
rad_to_s16(val) == [num |-> val * 8192, den |-> 2 * 45]

\* val is an angle in radians; the comparison with the s16 bounds is made on
\* the radians, with pi taken as 355/113 (val * pi / 360 is the radian value)
format_s16_rot(val, scale, fmt_hex) ==
    IF val * 355 < S16_MIN * 360 * 113 THEN Raise
    ELSE IF val * 355 > S16_MAX * 360 * 113 THEN Raise
    ELSE LET r     == rad_to_s16(val)
             n_val == RoundRat(r.num, r.den)
         IN  format_integer(Fx(n_val), 1, TRUE)

\* CDataTypes and c_literal: the C type name of a data type
c_typedef_of(dt) ==
    CASE dt = "f32"     -> "f32"
      [] dt = "s32"     -> "s32"
      [] dt = "s16"     -> "s16"
      [] dt = "s16_rot" -> "s16"
      [] dt = "literal" -> "literal"

\* CDataType.formatter
formatter(dt, val, scale, fmt_hex) ==
    CASE dt = "f32"     -> format_f32(val, scale, fmt_hex)
      [] dt = "s32"     -> format_s32(val, scale, fmt_hex)
      [] dt = "s16"     -> format_s16(val, scale, fmt_hex)
      [] dt = "s16_rot" -> format_s16_rot(val, scale, fmt_hex)
      [] dt = "literal" -> format_literal(val, scale, fmt_hex)

(***************************************************************************)
(* Coordinate transform                                                    *)
(***************************************************************************)
\* variant: the inverse basis change
transform_mtx_n64_to_blender ==
    << <<1, 0, 0>>,
       <<0, 0, -1>>,
       <<0, 1, 0>> >>

\* upper-left 3x3 of the 4x4 basis change (the fourth row and column are
\* those of the identity)
transform_mtx_blender_to_n64 ==
    << <<1, 0, 0>>,
       <<0, 0, 1>>,
       <<0, -1, 0>> >>

Dot(a, b) == a[1] * b[1] + a[2] * b[2] + a[3] * b[3]

\* Matrix @ Vector
MatVec(m, v) == << Dot(m[1], v), Dot(m[2], v), Dot(m[3], v) >>

\* variant: the axes are exchanged, none is negated
N64Vec_to_n64_swap_only(v) == <<v[1], v[3], v[2]>>

N64Vec_to_n64(v) == MatVec(transform_mtx_blender_to_n64, v)

\* variant: the remapped z component keeps its sign
ScaleVector_to_n64_no_negate(v) == MatVec(transform_mtx_blender_to_n64, v)

ScaleVector_to_n64(v) ==
    LET n64_vec == MatVec(transform_mtx_blender_to_n64, v)
    IN  [n64_vec EXCEPT ![3] = -1 * @]

\* the Euler decomposition (order ZXY) of M R M^-1 is computed by the host's
\* math library; a rotation value carries the three angles it returns
N64Rotation_to_n64(eul) == eul

(***************************************************************************)
(* Value model: every value is a record [kind, v, dt, s, items, c_typedef] *)
(***************************************************************************)
Value(kind, v, dt, s, items, td) ==
    [kind |-> kind, v |-> v, dt |-> dt, s |-> s, items |-> items,
     c_typedef |-> td]

LocationVector(v, dt) == Value("LocationVector", v, dt, "", <<>>, "")
ScaleVector(v, dt)    == Value("ScaleVector", v, dt, "", <<>>, "")
N64Rotation(eul)      == Value("N64Rotation", eul, "s16_rot", "", <<>>, "")
CVal_Literal(str)     == Value("CVal_Literal", <<>>, "literal", str, <<>>, "")
List(items)           == Value("list", <<>>, "", "", items, "")
CStruct(items, td)    == Value("CStruct", <<>>, "", "", items, td)

IsVector(value) == value.kind \in {"LocationVector", "ScaleVector", "N64Rotation"}
IsList(value)   == value.kind \in {"list", "CStruct"}

to_n64(vec) ==
    CASE vec.kind = "LocationVector" -> N64Vec_to_n64(vec.v)
      [] vec.kind = "ScaleVector"    -> ScaleVector_to_n64(vec.v)
      [] vec.kind = "N64Rotation"    -> N64Rotation_to_n64(vec.v)

reduce_list(l) == IF Len(l) = 1 THEN l[1] ELSE List(l)

(***************************************************************************)
(* C emitter (class CVar)                                                  *)
(***************************************************************************)
RECURSIVE JoinStr(_, _)
\* sep.join(items)
JoinStr(items, sep) ==
    IF Len(items) = 0 THEN ""
    ELSE IF Len(items) = 1 THEN items[1]
    ELSE items[1] \o sep \o JoinStr(Tail(items), sep)

join_on_one_line(items, prefix) ==
    prefix \o JoinStr(<<"{", JoinStr(items, ", "), "}">>, " ")

\* variant: the last item is left out
join_on_new_lines_drops_last(items, prefix) ==
    JoinStr(<<"{">> \o [i \in 1..(Len(items) - 1) |-> tabs(1) \o items[i] \o ","]
                  \o <<"}">>,
            "\n" \o prefix)

join_on_new_lines(items, prefix) ==
    JoinStr(<<"{">> \o [i \in 1..Len(items) |-> tabs(1) \o items[i] \o ","]
                  \o <<"}">>,
            "\n" \o prefix)

\* CVar.__init__
CVar(var_name, value, c_typedef, fmt_hex) ==
    [var_name      |-> var_name,
     value         |-> value,
     fmt_hex       |-> fmt_hex,
     c_typedef     |-> c_typedef,
     array_depth   |-> 0,
     array_lengths |-> <<>>,
     scale         |-> 0,
     max_line_size |-> 80,
     struct_start  |-> -1]

\* variant: every call records a further dimension
new_array_depth_always_appends(self, depth, array_len) ==
    [self EXCEPT !.array_depth = IF depth > @ THEN depth ELSE @,
                 !.array_lengths = Append(@, array_len)]

new_array_depth(self, depth, array_len) ==
    IF depth > self.array_depth
    THEN [self EXCEPT !.array_depth = depth,
                      !.array_lengths = Append(@, array_len)]
    ELSE [self EXCEPT !.array_lengths[depth] = array_len]

\* result of a formatting step: ok is FALSE when a formatter raised; out is
\* the text, self the CVar after the step, leaves the literals written so far
Fmt(ok, out, self, leaves) ==
    [ok |-> ok, out |-> out, self |-> self, leaves |-> leaves]

Leaf(kind, dt, scale, lit) ==
    [kind |-> kind, dt |-> dt, scale |-> scale, s |-> lit.s, n |-> lit.n]

\* the tail of fmt_vec: lits are the three formatted components
fmt_vec_join(self, vec, scale, lits) ==
    IF \E i \in 1..3 : ~lits[i].ok
    THEN Fmt(FALSE, "", self, <<>>)
    ELSE Fmt(TRUE,
             JoinStr(<<"{", JoinStr([i \in 1..3 |-> lits[i].s], ", "), "}">>,
                     " "),
             self,
             [i \in 1..3 |-> Leaf(vec.kind, vec.dt, scale, lits[i])])

\* the components of fmt_vec, formatted with the given scale
fmt_vec_scaled(self, vec, n64_vec, scale) ==
    fmt_vec_join(self, vec, scale,
                 [i \in 1..3 |->
                     formatter(vec.dt, n64_vec[i], scale, self.fmt_hex)])

\* variant: the scale is applied to every kind of vector
fmt_vec_scales_all(self, vec) ==
    fmt_vec_scaled(self, vec, to_n64(vec), self.scale)

fmt_vec(self, vec) ==
    fmt_vec_scaled(self, vec, to_n64(vec),
                   IF vec.kind = "LocationVector" THEN self.scale ELSE 1)

RECURSIVE format_nested(_, _, _)
RECURSIVE format_items(_, _, _, _, _, _)

\* one turn of the loop "for item in value": formatted is the formatted item i
format_item_done(formatted, items, i, new_depth, values, leaves) ==
    IF ~formatted.ok
    THEN [ok |-> FALSE, values |-> values, self |-> formatted.self,
          leaves |-> leaves]
    ELSE format_items(formatted.self, items, i + 1, new_depth,
                      Append(values, formatted.out),
                      leaves \o formatted.leaves)

\* the loop "for item in value" of format_nested, from item i on; values and
\* leaves accumulate the formatted children
format_items(self, items, i, new_depth, values, leaves) ==
    IF i > Len(items)
    THEN [ok |-> TRUE, values |-> values, self |-> self, leaves |-> leaves]
    ELSE format_item_done(format_nested(self, items[i], new_depth),
                          items, i, new_depth, values, leaves)

\* lines 257-263: the one-line rendering, or one child per line when it is
\* longer than max_line_size
format_output(self, values, leaves, flat, new_depth) ==
    Fmt(TRUE,
        IF Len(flat) > self.max_line_size
        THEN join_on_new_lines(values, tabs(new_depth - 1))
        ELSE flat,
        self, leaves)

\* lines 254-263: walk is the result of the loop over the items
format_list_done(walk, new_depth) ==
    IF ~walk.ok THEN Fmt(FALSE, "", walk.self, <<>>)
    ELSE format_output(new_array_depth(walk.self, new_depth, Len(walk.values)),
                       walk.values, walk.leaves,
                       join_on_one_line(walk.values, tabs(new_depth - 2)),
                       new_depth)

\* lines 245-247: a CStruct sets struct_start and the C type
struct_seen(self, value, depth) ==
    IF value.kind = "CStruct"
    THEN [self EXCEPT !.struct_start = depth, !.c_typedef = value.c_typedef]
    ELSE self

\* line 265: a scalar or literal leaf
format_leaf(self, value, lit) ==
    IF ~lit.ok THEN Fmt(FALSE, "", self, <<>>)
    ELSE Fmt(TRUE, lit.s, self, <<Leaf(value.kind, value.dt, 1, lit)>>)

format_nested(self, value, depth) ==
    IF IsVector(value)
    THEN fmt_vec(new_array_depth(self, depth + 1, 3), value)
    ELSE IF IsList(value)
    THEN format_list_done(
             format_items(new_array_depth(struct_seen(self, value, depth),
                                          depth + 1, Len(value.items)),
                          value.items, 1, depth + 1, <<>>, <<>>),
             depth + 1)
    ELSE format_leaf(self, value, formatter(value.dt, value.s, 1, self.fmt_hex))

\* variant: every call drops the innermost recorded dimension
dec_c_var_cut_innermost(self) ==
    IF self.array_depth > 0
    THEN [self EXCEPT !.array_lengths = SubSeq(@, 1, Len(@) - 1),
                      !.array_depth = @ - 1]
    ELSE self

\* lines 273-275: a struct cuts the dimensions at its depth
dec_c_var_cut(self) ==
    IF self.struct_start >= 0
    THEN [self EXCEPT !.array_lengths = SubSeq(@, 1, self.struct_start),
                      !.array_depth = self.struct_start]
    ELSE self

\* lines 276-283: the declaration text of the CVar
dec_c_var_text(self) ==
    JoinStr(<<self.c_typedef,
              self.var_name \o
                (IF self.array_depth > 0
                 THEN JoinStr([i \in 1..Len(self.array_lengths) |->
                          "[" \o NatStr(self.array_lengths[i], 10, DecDigits)
                              \o "]"], "")
                 ELSE "")>>,
            " ")

\* dec_c_var: the declaration text and the CVar it leaves behind
dec_c_var_of(self1) == [out |-> dec_c_var_text(self1), self |-> self1]

dec_c_var(self) == dec_c_var_of(dec_c_var_cut(self))

\* get_blender_to_game_scale: the scale of the scene's game editor mode
get_blender_to_game_scale(s) == s.scale

\* result of to_c: the text, the CVar it leaves behind, the literals written,
\* and the parts the text is made of: the declaration dec, the array text
\* body, and the CVar as format_nested left it (walked)
CText(ok, out, self, leaves, dec, body, walked) ==
    [ok |-> ok, out |-> out, self |-> self, leaves |-> leaves, dec |-> dec,
     body |-> body, walked |-> walked]

\* line 288-289 of to_c: dec is the result of dec_c_var
to_c_text(c_array, dec) ==
    CText(TRUE, JoinStr(<<dec.out, "=", c_array.out>>, " ") \o ";\n",
          dec.self, c_array.leaves, dec.out, c_array.out, c_array.self)

\* the tail of to_c: c_array is the result of format_nested
to_c_done(c_array) ==
    IF ~c_array.ok
    THEN CText(FALSE, "", c_array.self, <<>>, "", "", c_array.self)
    ELSE to_c_text(c_array, dec_c_var(c_array.self))

\* to_c: [ok, out, self, leaves, dec, body, walked]
to_c(self, s) ==
    to_c_done(format_nested([self EXCEPT !.scale = get_blender_to_game_scale(s)],
                            self.value, 0))

to_c_extern_text(dec) ==
    [out |-> JoinStr(<<"extern", dec.out>>, " ") \o ";", self |-> dec.self]

to_c_extern(self) == to_c_extern_text(dec_c_var(self))

(***************************************************************************)
(* Host scene.  Objects are "A" and "B"; "B" is a child of "A".  The world *)
(* matrix of an object is read through its three decompositions.           *)
(***************************************************************************)
Objects == {"A", "B"}
NoObj   == "None"

parent(o) == IF o = "B" THEN "A" ELSE NoObj

VAdd(a, b) == <<a[1] + b[1], a[2] + b[2], a[3] + b[3]>>
VSub(a, b) == <<a[1] - b[1], a[2] - b[2], a[3] - b[3]>>

\* offset of the child "B" from its parent: (0.5, 1, -1)
ChildOffset == <<1, Fx(1), Fx(-1)>>

\* obj.matrix_world.to_translation(), evaluated at the scene's frame cursor:
\* "A" moves one unit along x per frame, "B" follows it
to_translation(s, o) ==
    LET a == VAdd(s.loc, <<Fx(s.frame_current - 1), 0, 0>>)
    IN  IF o = "A" THEN a ELSE VAdd(a, ChildOffset)

\* obj.matrix_world.to_scale()
to_scale(s, o) == IF o = "A" THEN <<Fx(1), Fx(2), Fx(3)>>
                  ELSE <<Fx(1), Fx(1), 1>>

\* the Euler angles (half degrees, engine space) of the object's orientation
to_quaternion(s, o) == IF o = "A" THEN <<Fx(0), Fx(90), Fx(-45)>>
                       ELSE <<Fx(180), Fx(0), 45>>

(***************************************************************************)
(* Aggregator (ObjectData, ObjectDataGatherer)                             *)
(***************************************************************************)
None == Value("None", <<>>, "", "", <<>>, "")

\* ObjectData.__init__ : no data yet, the matrix is the object's world matrix
ObjectData(o) ==
    [obj |-> o, position_data |-> None, scale_data |-> None,
     rotation_data |-> None]

add_pos_data(od, s, dt) ==
    [od EXCEPT !.position_data = LocationVector(to_translation(s, od.obj), dt)]

add_scale_data(od, s, dt) ==
    [od EXCEPT !.scale_data = ScaleVector(to_scale(s, od.obj), dt)]

add_rot_data(od, s) ==
    [od EXCEPT !.rotation_data = N64Rotation(to_quaternion(s, od.obj))]

should_separate_data(od) ==
    od.rotation_data # None /\ (od.position_data # None \/ od.scale_data # None)

get_valid_data(od) ==
    SelectSeq(<<od.position_data, od.rotation_data, od.scale_data>>,
              LAMBDA p : p # None)

get_reduced_exports(od) == reduce_list(get_valid_data(od))

\* ObjectDataGatherer.flatten; object_data is the list of ObjectData
flatten(object_data) ==
    reduce_list([i \in 1..Len(object_data) |->
                    get_reduced_exports(object_data[i])])

\* ObjectDataGatherer.unpack: <<pos, rot, scale>>, each None or reduced
unpack(object_data) ==
    LET pick(field) ==
            LET n == SelectSeq([i \in 1..Len(object_data) |->
                                   object_data[i][field]],
                               LAMBDA p : p # None)
            IN  IF Len(n) > 0 THEN reduce_list(n) ELSE None
    IN  <<pick("position_data"), pick("rotation_data"), pick("scale_data")>>

\* Python truth value of a gathered value: None and the empty list are false,
\* vectors and quaternions have a non-zero length
Truthy(value) ==
    /\ value # None
    /\ IsList(value) => Len(value.items) > 0

\* Python len() of a value
PyLen(value) ==
    IF IsList(value) THEN Len(value.items)
    ELSE IF value.kind = "N64Rotation" THEN 4 ELSE 3

(***************************************************************************)
(* Animation export operator (ExportN64ObjectAnimations.execute)           *)
(***************************************************************************)
NothingToExport ==
    "PluginError: Oopsie it looks like ya didn't have no data to export lmao"

\* variant: a CVar is made of empty data too
get_cdata_for_frames_of_empty(exp, anim_data, name_ext) ==
    CVar(exp.export_variable \o name_ext, anim_data,
         c_typedef_of(exp.data_type), exp.data_type = "s16")

\* get_cdata_for_frames: None when the data is empty, else the CVar
get_cdata_for_frames(exp, anim_data, name_ext) ==
    IF PyLen(anim_data) = 0 THEN None
    ELSE CVar(exp.export_variable \o name_ext, anim_data,
              c_typedef_of(exp.data_type), exp.data_type = "s16")

\* an emitted variable: the CVar after to_c and to_c_extern, its literals,
\* its definition and its extern declaration, and of the definition: the
\* declaration, the array text, the CVar after the walk and after to_c
EmittedVar(c, e) ==
    [var |-> e.self, leaves |-> c.leaves, def |-> c.out, extern |-> e.out,
     dec |-> c.dec, body |-> c.body, walked |-> c.walked, defined |-> c.self]

\* lines 115-116: c is the result of to_c, e the result of to_c_extern
add_to_export(em, c, e) ==
    [ok           |-> TRUE,
     final        |-> Append(em.final, c.out),
     final_header |-> Append(em.final_header, e.out),
     cvars        |-> Append(em.cvars, EmittedVar(c, e))]

\* line 115: c is the result of cvar.to_c()
add_to_c(em, c) ==
    IF ~c.ok THEN [em EXCEPT !.ok = FALSE]
    ELSE add_to_export(em, c, to_c_extern(c.self))

\* lines 113-116: cvar is the result of get_cdata_for_frames
add_cvar(em, cvar, s) ==
    IF ~em.ok \/ cvar = None THEN em
    ELSE add_to_c(em, to_c(cvar, s))

\* check_and_add_to_export applied to the emission state
\* em = [ok, final, final_header, cvars]
check_and_add_to_export(em, exp, s, a_data, name_ext) ==
    add_cvar(em, get_cdata_for_frames(exp, a_data, name_ext), s)

RECURSIVE export_all(_, _, _, _, _)
\* the successive calls of check_and_add_to_export (lines 122-124, 131),
\* from call i on
export_all(em, exp, s, calls, i) ==
    IF i > Len(calls) THEN em
    ELSE export_all(check_and_add_to_export(em, exp, s, calls[i][1],
                                            calls[i][2]),
                    exp, s, calls, i + 1)

\* variant: the exception is recorded and the export carries on to its writes
Fail_swallowed(msg) ==
    /\ pc' = "write"
    /\ error' = msg

\* an exception leaves execute (lines 147-148: except Exception: raise)
Fail(msg) ==
    /\ pc' = "error"
    /\ error' = msg

\* variant: the frame cursor is moved to the end of the range before the
\* settings are validated
AnimValidate_seeks ==
    /\ op = "anim" /\ pc = "start"
    /\ IF Len(exporter.export_objects) = 0
       THEN Fail("PluginError: No objects set for export.")
       ELSE IF Len(exporter.export_path) = 0
       THEN Fail("PluginError: Must supply an export path.")
       ELSE IF Len(exporter.export_variable) = 0
       THEN Fail("PluginError: Must supply a variable name.")
       ELSE IF ~(exporter.translation \/ exporter.scale \/ exporter.rotation)
       THEN Fail("PluginError: Must export one value between translation, scale, and rotation.")
       ELSE pc' = "frames" /\ error' = error
    /\ idx' = scene.frame_start
    /\ scene' = [scene EXCEPT !.frame_current = scene.frame_end]
    /\ UNCHANGED <<op, call, ret, exporter, all_frames, final,
                   final_header, cvars, files>>

\* lines 51-66: validation, then the frame loop starts at frame_start
AnimValidate ==
    /\ op = "anim" /\ pc = "start"
    /\ IF Len(exporter.export_objects) = 0
       THEN Fail("PluginError: No objects set for export.")
       ELSE IF Len(exporter.export_path) = 0
       THEN Fail("PluginError: Must supply an export path.")
       ELSE IF Len(exporter.export_variable) = 0
       THEN Fail("PluginError: Must supply a variable name.")
       ELSE IF ~(exporter.translation \/ exporter.scale \/ exporter.rotation)
       THEN Fail("PluginError: Must export one value between translation, scale, and rotation.")
       ELSE pc' = "frames" /\ error' = error
    /\ idx' = scene.frame_start
    /\ UNCHANGED <<op, call, ret, exporter, scene, all_frames, final,
                   final_header, cvars, files>>

\* lines 72-84: the ObjectDataGatherer of the frame the cursor is on
frame_gather(exp, s) ==
    LET objs == SelectSeq(exp.export_objects, LAMBDA e : e # NoObj)
        data(o) ==
            LET d0 == ObjectData(o)
                d1 == IF exp.translation
                      THEN add_pos_data(d0, s, exp.data_type) ELSE d0
                d2 == IF exp.rotation THEN add_rot_data(d1, s) ELSE d1
                d3 == IF exp.scale
                      THEN add_scale_data(d2, s, exp.data_type) ELSE d2
            IN  d3
    IN  [i \in 1..Len(objs) |-> data(objs[i])]

\* variant: the frame cursor stays where it is
frame_set_ignored(s, i) == s

\* bpy.context.scene.frame_set(i)
frame_set(s, i) == [s EXCEPT !.frame_current = i]

\* lines 70-86: one iteration of the frame loop
AnimFrame ==
    /\ op = "anim" /\ pc = "frames"
    /\ idx <= scene.frame_end
    /\ scene' = frame_set(scene, idx)
    /\ all_frames' = Append(all_frames, frame_gather(exporter, scene'))
    /\ idx' = idx + 1
    /\ UNCHANGED <<op, pc, call, ret, exporter, final, final_header, cvars,
                   files, error>>

\* lines 96-107: <<anim_data, anim_data__pos, anim_data__rot, anim_data__scale>>
group_frames(frames, separated) ==
    LET un == [i \in 1..Len(frames) |-> unpack(frames[i])]
        col(k) == SelectSeq([i \in 1..Len(frames) |-> un[i][k]], Truthy)
    IN  IF separated
        THEN << <<>>, col(1), col(2), col(3) >>
        ELSE << [i \in 1..Len(frames) |-> flatten(frames[i])],
                <<>>, <<>>, <<>> >>

\* lines 109-110: the emission state before the first variable
EmptyExport ==
    [ok |-> TRUE,
     final |-> <<"#include \"types.h\"\n\n">>,
     final_header |-> <<"#pragma once", "#include \"types.h\"\n\n">>,
     cvars |-> <<>>]

\* lines 118-131: the arguments of the calls of check_and_add_to_export,
\* in their order; g is the result of group_frames
export_calls(g, separated) ==
    IF separated
    THEN << <<List(g[2]), "_pos">>, <<List(g[3]), "_rot">>,
            <<List(g[4]), "_scale">> >>
    ELSE << <<IF Len(g[1]) = 1 THEN g[1][1] ELSE List(g[1]), "">> >>

\* lines 119 and 126: no data to export
no_data(g, separated) ==
    IF separated THEN Len(g[2]) + Len(g[3]) + Len(g[4]) = 0
    ELSE Len(g[1]) = 0

\* lines 88-131: grouping, the empty check and the emission of the variables
AnimEmit ==
    /\ op = "anim" /\ pc = "frames"
    /\ idx > scene.frame_end
    /\ \E g \in {group_frames(all_frames, exporter.separate_values)} :
         IF no_data(g, exporter.separate_values)
         THEN /\ Fail(NothingToExport)
              /\ UNCHANGED <<final, final_header, cvars>>
         ELSE \E em \in {export_all(EmptyExport, exporter, scene,
                             export_calls(g, exporter.separate_values), 1)} :
                IF ~em.ok
                THEN /\ Fail("ValueError")
                     /\ UNCHANGED <<final, final_header, cvars>>
                ELSE /\ pc' = "write"
                     /\ final' = em.final
                     /\ final_header' = em.final_header
                     /\ cvars' = em.cvars
                     /\ error' = error
    /\ UNCHANGED <<op, call, ret, exporter, scene, idx, all_frames, files>>

\* lines 133-137: the source file
AnimWriteSource ==
    /\ op = "anim" /\ pc = "write"
    /\ files' = Append(files, [name |-> exporter.export_filename,
                               text |-> JoinStr(final, "\n")])
    /\ pc' = "header"
    /\ UNCHANGED <<op, call, ret, exporter, scene, idx, all_frames, final,
                   final_header, cvars, error>>

\* lines 139-143: the header file, when requested
AnimWriteHeader ==
    /\ op = "anim" /\ pc = "header"
    /\ exporter.export_header
    /\ files' = Append(files, [name |-> exporter.export_header_filename,
                               text |-> JoinStr(final_header, "\n")])
    /\ pc' = "report"
    /\ UNCHANGED <<op, call, ret, exporter, scene, idx, all_frames, final,
                   final_header, cvars, error>>

\* line 145-150: report and return FINISHED
AnimReport ==
    /\ op = "anim"
    /\ \/ pc = "report"
       \/ pc = "header" /\ ~exporter.export_header
    /\ pc' = "done"
    /\ UNCHANGED <<op, call, ret, exporter, scene, idx, all_frames, final,
                   final_header, cvars, files, error>>

(***************************************************************************)
(* Object export operator (ExportN64ObjectProperties.execute)              *)
(***************************************************************************)
\* lines 43-55: validation; the loop over export_objects starts at the first
ObjValidate ==
    /\ op = "obj" /\ pc = "start"
    /\ IF Len(exporter.export_objects) = 0
       THEN /\ Fail("PluginError: No objects set for export.")
            /\ UNCHANGED <<final, final_header>>
       ELSE IF Len(exporter.export_path) = 0
       THEN /\ Fail("PluginError: Must supply an export path.")
            /\ UNCHANGED <<final, final_header>>
       ELSE IF ~(exporter.translation \/ exporter.scale \/ exporter.rotation)
       THEN /\ Fail("PluginError: Must export one value between translation, scale, and rotation.")
            /\ UNCHANGED <<final, final_header>>
       ELSE /\ pc' = "objects" /\ error' = error
            /\ final' = <<"#include \"types.h\"\n">>
            /\ final_header' = <<"#pragma once\n">>
    /\ idx' = 1
    /\ UNCHANGED <<op, call, ret, exporter, scene, all_frames, cvars, files>>

\* lines 60-83: the list obj_props of one export object
obj_props_of(exp, s, exp_obj) ==
    LET export_props == exp_obj.export_props
        base_loc == to_translation(s, exp_obj.obj)
        loc == IF exp_obj.relative_pos /\ parent(exp_obj.obj) # NoObj
               THEN VSub(base_loc, to_translation(s, parent(exp_obj.obj)))
               ELSE base_loc
        p1 == IF export_props.translation
              THEN <<LocationVector(loc, exp.data_type)>> ELSE <<>>
        p2 == IF export_props.rotation
              THEN Append(p1, N64Rotation(to_quaternion(s, exp_obj.obj)))
              ELSE p1
        p3 == IF export_props.scale
              THEN Append(p2, ScaleVector(to_scale(s, exp_obj.obj), exp.data_type))
              ELSE p2
        p4 == IF export_props.as_struct
              THEN p3 \o [i \in 1..Len(export_props.custom_props) |->
                            CVal_Literal(export_props.custom_props[i])]
              ELSE p3
    IN  p4

\* lines 87-95: the CVar of one export object, obj_props being its list
obj_c_var(exp, exp_obj, obj_props) ==
    CVar(exp_obj.var_name,
         IF exp_obj.export_props.as_struct
         THEN CStruct(obj_props, exp_obj.export_props.struct_typedef)
         ELSE IF Len(obj_props) = 1
                 /\ Len(exp_obj.export_props.custom_props) <= 0
              THEN obj_props[1]
              ELSE List(obj_props),
         c_typedef_of(exp.data_type), exp.data_type = "s16")

\* lines 96-97: c is the result of to_c, e the result of to_c_extern
ObjAppend(c, e) ==
    /\ pc' = pc /\ error' = error
    /\ final' = Append(final, c.out)
    /\ final_header' = Append(final_header, e.out)
    /\ cvars' = Append(cvars, EmittedVar(c, e))

\* lines 57-97: one iteration of the loop over export_objects
ObjExportOne ==
    /\ op = "obj" /\ pc = "objects"
    /\ idx <= Len(exporter.export_objects)
    /\ \E exp_obj \in {exporter.export_objects[idx]} :
         IF exp_obj.obj = NoObj
         THEN /\ pc' = pc /\ error' = error
              /\ UNCHANGED <<final, final_header, cvars>>
         ELSE \E obj_props \in {obj_props_of(exporter, scene, exp_obj)} :
            IF ~exp_obj.export_props.as_struct /\ exp_obj.export_props.rotation
                  /\ Len(obj_props) > 1
            THEN /\ Fail("Exception: Ah shit, you cannot export rotations with other properties as an array. Sorry friend. Enable exporting as a struct to continue")
                 /\ UNCHANGED <<final, final_header, cvars>>
            ELSE IF Len(obj_props) = 1
                    /\ Len(exp_obj.export_props.custom_props) <= 0
                    /\ exp_obj.export_props.as_struct
            THEN /\ Fail("Exception: Oops, named vectors have not been implemented.")
                 /\ UNCHANGED <<final, final_header, cvars>>
            ELSE \E c \in {to_c(obj_c_var(exporter, exp_obj, obj_props), scene)} :
                   IF ~c.ok
                   THEN /\ Fail("ValueError")
                        /\ UNCHANGED <<final, final_header, cvars>>
                   ELSE \E e \in {to_c_extern(c.self)} : ObjAppend(c, e)
    /\ idx' = idx + 1
    /\ UNCHANGED <<op, call, ret, exporter, scene, all_frames, files>>

\* export_lines_to_file
export_lines_to_file(lines, filename) ==
    [name |-> filename, text |-> JoinStr(Append(lines, ""), "\n")]

\* line 99: the source file, once every export object was formatted
ObjWriteSource ==
    /\ op = "obj" /\ pc = "objects"
    /\ idx > Len(exporter.export_objects)
    /\ files' = Append(files, export_lines_to_file(final, exporter.export_filename))
    /\ pc' = "header"
    /\ UNCHANGED <<op, call, ret, exporter, scene, idx, all_frames, final,
                   final_header, cvars, error>>

\* line 100: the header file
ObjWriteHeader ==
    /\ op = "obj" /\ pc = "header"
    /\ files' = Append(files, export_lines_to_file(final_header,
                                                   exporter.export_header))
    /\ pc' = "report"
    /\ UNCHANGED <<op, call, ret, exporter, scene, idx, all_frames, final,
                   final_header, cvars, error>>

\* lines 102-107: report and return FINISHED
ObjReport ==
    /\ op = "obj" /\ pc = "report"
    /\ pc' = "done"
    /\ UNCHANGED <<op, call, ret, exporter, scene, idx, all_frames, final,
                   final_header, cvars, files, error>>

(***************************************************************************)
(* Bounds and input sets                                                   *)
(***************************************************************************)
\* longest export-object list
MaxObjects == 2
\* largest frame_end
MaxFrame == 2
\* longest custom-property list
MaxCustomProps == 1
\* largest host coordinate of the transform calls
MaxCoord == 2
\* how far past the s16 bounds the formatter inputs go
FmtSlack == 1
\* how many times the host calls register() or unregister()
MaxCalls == 3
\* longest collection of the list operators
MaxItems == 4

Seqs(S, n) == UNION {[1..k -> S] : k \in 0..n}

\* blender-to-game scales of the scene
Scales == {1, 100}

\* scene data: the unit scale and the world translation of "A" at frame 1
SceneData ==
    { [scale |-> 1,   loc |-> <<Fx(1), Fx(2), Fx(3)>>],
      [scale |-> 1,   loc |-> <<Fx(32767), Fx(32768), Fx(400)>>],
      [scale |-> 100, loc |-> <<Fx(32767), Fx(32768), Fx(400)>>] }

DataTypes == {"f32", "s32", "s16"}

\* the host scene: the frame range, the frame cursor and the scene data
Scene(frame_start, frame_end, d) ==
    [frame_start |-> frame_start, frame_end |-> frame_end, frame_current |-> 1,
     scale |-> d.scale, loc |-> d.loc]

\* frame ranges <<start, end>> of the scene: empty, one frame, several frames
\* from frame 1, and frames from frame 2 on
FrameRanges == { <<1, 0>>, <<1, 1>>, <<1, MaxFrame>>, <<2, MaxFrame>> }

\* export lists: every entry holds an object or none, no object twice
ExportObjectLists ==
    { l \in Seqs(Objects \cup {NoObj}, MaxObjects) :
        \A i, j \in 1..Len(l) : (i < j /\ l[i] = l[j]) => l[i] = NoObj }

\* at most one of the conditions holds
AtMostOne(conds) ==
    \A i, j \in 1..Len(conds) : (i < j /\ conds[i]) => ~conds[j]

Paths == {"", "//out"}
VariableNames == {"", "blender_export"}

MiniObjectAnimExporterProperty(objs, path, variable, header, dt, separated, t, r, sc) ==
    [export_objects         |-> objs,
     export_path            |-> path,
     export_filename        |-> "frames.c",
     export_header          |-> header,
     export_header_filename |-> "frames.h",
     export_variable        |-> variable,
     data_type              |-> dt,
     separate_values        |-> separated,
     translation            |-> t,
     rotation               |-> r,
     scale                  |-> sc]

ObjectExportProperties(as_struct, t, r, sc, custom_props) ==
    [as_struct      |-> as_struct,
     struct_typedef |-> "struct MyStruct",
     translation    |-> t,
     rotation       |-> r,
     scale          |-> sc,
     custom_props   |-> custom_props]

CustomPropLists == Seqs({"FOO"}, MaxCustomProps)

\* on_update_object names the variable after the object; the user may clear
\* it.  relative_pos defaults to True and is cleared only where it has an
\* effect, on an object with a parent
ExportIndividualObjectProperty(o, named, relative_pos, export_props) ==
    [obj          |-> o,
     var_name     |-> IF named /\ o # NoObj THEN "obj" \o o ELSE "",
     relative_pos |-> IF o # NoObj /\ parent(o) # NoObj THEN relative_pos
                      ELSE TRUE,
     export_props |-> export_props]

\* the entries of an export list share their settings, differ by their object
MiniObjectObjExporterProperty(objs, named, rel, props, path, dt, t) ==
    [export_objects  |-> [i \in 1..Len(objs) |->
                            ExportIndividualObjectProperty(objs[i], named, rel,
                                                           props)],
     export_path     |-> path,
     export_filename |-> "frames.c",
     export_header   |-> "frames.h",
     data_type       |-> dt,
     translation     |-> t,
     rotation        |-> FALSE,
     scale           |-> FALSE]

NoCall == [fn |-> "none"]

IdleExport ==
    /\ idx = 0
    /\ all_frames = <<>>
    /\ final = <<>>
    /\ final_header = <<>>
    /\ cvars = <<>>
    /\ files = <<>>
    /\ error = ""

(***************************************************************************)
(* Export specification: one invocation of either export operator          *)
(***************************************************************************)
\* animation exporter settings with at most one of path and variable name
\* left empty
InitAnim ==
    /\ op = "anim"
    /\ \E objs \in ExportObjectLists, path \in Paths, variable \in VariableNames,
          header \in BOOLEAN, dt \in DataTypes, separated \in BOOLEAN,
          t \in BOOLEAN, r \in BOOLEAN, sc \in BOOLEAN :
            /\ AtMostOne(<<path = "", variable = "">>)
            /\ exporter = MiniObjectAnimExporterProperty(objs, path, variable,
                              header, dt, separated, t, r, sc)
    /\ \E r \in FrameRanges, d \in SceneData : scene = Scene(r[1], r[2], d)

\* object exporter settings with at most one of: no path, no variable names,
\* no exporter-level flag
InitObj ==
    /\ op = "obj"
    /\ \E objs \in ExportObjectLists, named \in BOOLEAN, rel \in BOOLEAN,
          path \in Paths, dt \in DataTypes, t \in BOOLEAN,
          as_struct \in BOOLEAN, pt \in BOOLEAN, pr \in BOOLEAN,
          ps \in BOOLEAN, custom_props \in CustomPropLists :
            /\ AtMostOne(<<path = "", ~named, ~t>>)
            /\ exporter = MiniObjectObjExporterProperty(objs, named, rel,
                              ObjectExportProperties(as_struct, pt, pr, ps,
                                                     custom_props),
                              path, dt, t)
    /\ \E d \in SceneData : scene = Scene(1, 1, d)

Init ==
    /\ pc = "start"
    /\ call = NoCall /\ ret = NoCall
    /\ InitAnim \/ InitObj
    /\ IdleExport

Next ==
    \/ AnimValidate
    \/ AnimFrame
    \/ AnimEmit
    \/ AnimWriteSource
    \/ AnimWriteHeader
    \/ AnimReport
    \/ ObjValidate
    \/ ObjExportOne
    \/ ObjWriteSource
    \/ ObjWriteHeader
    \/ ObjReport

Spec == Init /\ [][Next]_vars

(***************************************************************************)
(* Formatter specification: one call of a numeric formatter                *)
(***************************************************************************)
Near(c) == { c + d : d \in (-Fx(FmtSlack))..Fx(FmtSlack) }

\* formatter inputs: around zero and around both s16 bounds, in halves
FmtVals == Near(0) \cup Near(Fx(S16_MIN)) \cup Near(Fx(S16_MAX))

FmtCalls ==
    [fn : {"f32", "s32", "s16", "s16_rot"}, val : FmtVals, scale : Scales,
     fmt_hex : BOOLEAN]
      \cup [fn : {"literal"}, val : {"FOO"}, scale : Scales, fmt_hex : BOOLEAN]

InitFmt ==
    /\ op = "fmt" /\ pc = "call"
    /\ call \in FmtCalls
    /\ ret = NoCall
    /\ exporter = <<>> /\ scene = <<>>
    /\ IdleExport

\* CDataType.formatter(val, scale, fmt_hex)
FormatCall ==
    /\ op = "fmt" /\ pc = "call"
    /\ ret' = formatter(call.fn, call.val, call.scale, call.fmt_hex)
    /\ pc' = "ret"
    /\ UNCHANGED <<op, call, exporter, scene, idx, all_frames, final,
                   final_header, cvars, files, error>>

NextFmt == FormatCall

SpecFmt == InitFmt /\ [][NextFmt]_vars

(***************************************************************************)
(* Transform specification: to_n64 of a vector, then again of its result   *)
(***************************************************************************)
Coords == { Fx(c) : c \in (-MaxCoord)..MaxCoord }

VecCalls ==
    [fn : {"LocationVector", "ScaleVector"}, v : Coords \X Coords \X Coords]

InitVec ==
    /\ op = "vec" /\ pc = "call"
    /\ call \in VecCalls
    /\ ret = NoCall
    /\ exporter = <<>> /\ scene = <<>>
    /\ IdleExport

\* vec.to_n64() of a vector of the called class
ToN64Call ==
    /\ op = "vec" /\ pc = "call"
    /\ ret' = to_n64(Value(call.fn, call.v, "f32", "", <<>>, ""))
    /\ pc' = "ret"
    /\ UNCHANGED <<op, call, exporter, scene, idx, all_frames, final,
                   final_header, cvars, files, error>>

\* to_n64() of the vector the first call returned
ToN64Again ==
    /\ op = "vec" /\ pc = "ret"
    /\ ret' = to_n64(Value(call.fn, ret, "f32", "", <<>>, ""))
    /\ pc' = "ret2"
    /\ UNCHANGED <<op, call, exporter, scene, idx, all_frames, final,
                   final_header, cvars, files, error>>

NextVec == ToN64Call \/ ToN64Again

SpecVec == InitVec /\ [][NextVec]_vars

(***************************************************************************)
(* Emitter specification: to_c, then to_c_extern, of a CVar over a value   *)
(* tree                                                                    *)
(***************************************************************************)
\* the vectors and the literal a value tree is made of
EmitLeaves(dt) ==
    { LocationVector(<<Fx(1), Fx(2), Fx(3)>>, dt),
      ScaleVector(<<Fx(1), Fx(2), Fx(3)>>, dt),
      N64Rotation(<<Fx(0), Fx(90), Fx(-45)>>),
      CVal_Literal("FOO") }

\* the rows an array of rows is made of: arrays of vectors and structs
EmitRows(dt) ==
    { List(<<>>),
      List(<<LocationVector(<<Fx(1), Fx(2), Fx(3)>>, dt)>>),
      List(<<LocationVector(<<Fx(1), Fx(2), Fx(3)>>, dt),
             ScaleVector(<<Fx(1), Fx(2), Fx(3)>>, dt)>>),
      CStruct(<<LocationVector(<<Fx(1), Fx(2), Fx(3)>>, dt)>>,
              "struct MyStruct"),
      CStruct(<<LocationVector(<<Fx(1), Fx(2), Fx(3)>>, dt),
                CVal_Literal("FOO")>>, "struct MyStruct") }

\* value trees: a leaf, an array or a struct of leaves, an array of rows
EmitValues(dt) ==
    EmitLeaves(dt)
      \cup { List(q) : q \in Seqs(EmitLeaves(dt), MaxObjects) }
      \cup { CStruct(q, "struct MyStruct") : q \in Seqs(EmitLeaves(dt), MaxObjects) }
      \cup { List(q) : q \in Seqs(EmitRows(dt), MaxObjects) \ {<<>>} }

InitEmit ==
    /\ op = "emit" /\ pc = "call"
    /\ \E dt \in {"f32", "s16"} : \E value \in EmitValues(dt) :
          call = [fn |-> "to_c", dt |-> dt, value |-> value]
    /\ ret = NoCall
    /\ exporter = <<>>
    /\ \E d \in SceneData : scene = Scene(1, 1, d)
    /\ IdleExport

\* c_var = CVar(name, value, c_typedef, data_type == s16); c_var.to_c()
EmitToC ==
    /\ op = "emit" /\ pc = "call"
    /\ ret' = to_c(CVar("v", call.value, c_typedef_of(call.dt),
                        call.dt = "s16"), scene)
    /\ pc' = "ret"
    /\ UNCHANGED <<op, call, exporter, scene, idx, all_frames, final,
                   final_header, cvars, files, error>>

\* c_var.to_c_extern() of the CVar as to_c left it
EmitExtern ==
    /\ op = "emit" /\ pc = "ret"
    /\ ret.ok
    /\ \E e \in {to_c_extern(ret.self)} : cvars' = <<EmittedVar(ret, e)>>
    /\ pc' = "ret2"
    /\ UNCHANGED <<op, call, ret, exporter, scene, idx, all_frames, final,
                   final_header, files, error>>

NextEmit == EmitToC \/ EmitExtern

SpecEmit == InitEmit /\ [][NextEmit]_vars

(***************************************************************************)
(* Registration specification: the host enables and disables the add-on.   *)
(* The host state is kept in scene: the set of registered classes, the     *)
(* classes registered again while registered, and whether the Scene type   *)
(* has the attribute mini_n64_object_exporter.                             *)
(***************************************************************************)
\* obj_exporter.classes
obj_classes ==
    << "CustomObjectExportProp", "ObjectExportProperties",
       "ExportN64ObjectProperties", "AddCustomObjectExportProp",
       "RemoveCustomObjectExportProp", "MoveCustomObjectExportProp",
       "DrawCustomObjectExportProp", "AddMiniExportObject",
       "RemoveMiniExportObject", "MoveMiniExportObject",
       "DrawMiniExportObject", "MiniN64ObjectPropertyExporterPanel",
       "ExportIndividualObjectProperty", "MiniObjectObjExporterProperty" >>

\* anim_exporter.classes
anim_classes ==
    << "ExportN64ObjectAnimations", "AddNewN64AnimExportObject",
       "RemoveN64AnimExportObject", "MiniN64ObjectAnimationExporterPanel",
       "ExportObjectProperty", "MiniObjectAnimExporterProperty" >>

\* __init__.classes
classes == << "MiniObjectExporterProperty" >>

\* reversed(seq)
reversed(seq) == [i \in 1..Len(seq) |-> seq[Len(seq) - i + 1]]

\* for cls in seq: host_call(cls)
ForEach(host_call, seq) == [i \in 1..Len(seq) |-> <<host_call, seq[i]>>]

obj_register == ForEach("register_class", obj_classes)

obj_unregister == ForEach("unregister_class", reversed(obj_classes))

anim_register == ForEach("register_class", anim_classes)

anim_unregister == ForEach("unregister_class", reversed(anim_classes))

\* the host calls made by register(), in order
register ==
    obj_register \o anim_register \o ForEach("register_class", classes)
       \o << <<"setattr", "mini_n64_object_exporter">> >>

\* the host calls made by unregister(), in order
unregister ==
    obj_register \o anim_unregister
       \o << <<"delattr", "mini_n64_object_exporter">> >>
       \o ForEach("unregister_class", reversed(classes))

\* outcome of a host call: it returns with the host state h, or raises err
Returns(h) == [ok |-> TRUE, h |-> h, err |-> ""]
Raises(h, err) == [ok |-> FALSE, h |-> h, err |-> err]

\* bpy.utils.register_class(cls): a class that is registered already is
\* either refused with ValueError or registered again, as the host decides
register_class(h, cls) ==
    IF cls \in h.registered
    THEN { Raises(h, "ValueError: already registered"),
           Returns([h EXCEPT !.again = @ \cup {cls}]) }
    ELSE { Returns([h EXCEPT !.registered = @ \cup {cls}]) }

\* bpy.utils.unregister_class(cls)
unregister_class(h, cls) ==
    IF cls \in h.registered
    THEN { Returns([h EXCEPT !.registered = @ \ {cls}]) }
    ELSE { Raises(h, "RuntimeError: not registered") }

\* the outcomes of one host call
host_call(h, step) ==
    CASE step[1] = "register_class"   -> register_class(h, step[2])
      [] step[1] = "unregister_class" -> unregister_class(h, step[2])
      [] step[1] = "setattr"          -> { Returns([h EXCEPT !.attr = TRUE]) }
      [] step[1] = "delattr"          ->
            IF h.attr THEN { Returns([h EXCEPT !.attr = FALSE]) }
            ELSE { Raises(h, "AttributeError") }

\* the host calls of the function that is running
RunningCalls == IF call.fn = "register" THEN register ELSE unregister

InitReg ==
    /\ op = "reg" /\ pc = "idle"
    /\ call = [fn |-> "none", n |-> 0]
    /\ ret = NoCall
    /\ exporter = <<>>
    /\ scene = [registered |-> {}, again |-> {}, attr |-> FALSE]
    /\ IdleExport

\* the host enables the add-on: register() is called, unless the add-on was
\* just enabled
RegisterCall ==
    /\ op = "reg" /\ pc = "idle"
    /\ call.n < MaxCalls
    /\ ~(call.fn = "register" /\ error = "")
    /\ call' = [fn |-> "register", n |-> call.n + 1]
    /\ pc' = "run" /\ idx' = 1 /\ error' = ""
    /\ UNCHANGED <<op, ret, exporter, scene, all_frames, final, final_header,
                   cvars, files>>

\* the host disables the enabled add-on: unregister() is called
UnregisterCall ==
    /\ op = "reg" /\ pc = "idle"
    /\ call.n < MaxCalls
    /\ call.fn = "register" /\ error = ""
    /\ call' = [fn |-> "unregister", n |-> call.n + 1]
    /\ pc' = "run" /\ idx' = 1 /\ error' = ""
    /\ UNCHANGED <<op, ret, exporter, scene, all_frames, final, final_header,
                   cvars, files>>

\* the next host call of the running function; an exception ends the function
RegStep ==
    /\ op = "reg" /\ pc = "run"
    /\ idx <= Len(RunningCalls)
    /\ \E r \in host_call(scene, RunningCalls[idx]) :
          IF r.ok
          THEN /\ scene' = r.h /\ idx' = idx + 1
               /\ pc' = pc /\ error' = error
          ELSE /\ pc' = "idle" /\ error' = r.err
               /\ scene' = scene /\ idx' = idx
    /\ UNCHANGED <<op, call, ret, exporter, all_frames, final, final_header,
                   cvars, files>>

\* the running function returns
RegReturn ==
    /\ op = "reg" /\ pc = "run"
    /\ idx > Len(RunningCalls)
    /\ pc' = "idle"
    /\ UNCHANGED <<op, call, ret, exporter, scene, idx, all_frames, final,
                   final_header, cvars, files, error>>

NextReg == RegisterCall \/ UnregisterCall \/ RegStep \/ RegReturn

SpecReg == InitReg /\ [][NextReg]_vars

(***************************************************************************)
(* List specification: the generic list operators on one collection.  The  *)
(* collection and its active index are kept in exporter, the property      *)
(* group that owns them; call names the operator that ran last.            *)
(***************************************************************************)
\* the item collection.add() creates: told apart by the least unused number
NewItem(collection) ==
    CHOOSE n \in 1..(Len(collection) + 1) :
        /\ \A i \in 1..Len(collection) : collection[i] # n
        /\ \A m \in 1..(n - 1) : \E i \in 1..Len(collection) : collection[i] = m

\* collection.add()
add(collection) == Append(collection, NewItem(collection))

\* collection.remove(index): nothing happens for an index out of range
remove(collection, index) ==
    IF index >= 0 /\ index < Len(collection)
    THEN SubSeq(collection, 1, index)
            \o SubSeq(collection, index + 2, Len(collection))
    ELSE collection

\* collection.move(key, pos): the item at key goes to pos; nothing happens
\* when either is out of range or both are equal
move(collection, key, pos) ==
    IF key >= 0 /\ key < Len(collection) /\ pos >= 0 /\ pos < Len(collection)
          /\ key # pos
    THEN LET rest == remove(collection, key)
         IN  SubSeq(rest, 1, pos) \o <<collection[key + 1]>>
                \o SubSeq(rest, pos + 1, Len(rest))
    ELSE collection

Min(a, b) == IF a < b THEN a ELSE b
Max(a, b) == IF a > b THEN a ELSE b

\* variant: the active index is left where it was
index_after_remove_kept(index, length) == index

\* line 75: the active index after a removal, length being len(collection)
\* after it
index_after_remove(index, length) == Min(Max(0, index - 1), length)

\* -1 if self.direction == 'UP' else 1
step_of(direction) == IF direction = "UP" THEN -1 ELSE 1

\* move_index: the clamped active index after a move
move_index(collection, index, direction) ==
    Max(0, Min(index + step_of(direction), Len(collection) - 1))

\* poll of col_remove and col_move: the collection, true when it has items
poll(collection) == Len(collection) > 0

InitList ==
    /\ op = "list" /\ pc = "idle"
    /\ call = NoCall /\ ret = NoCall
    /\ exporter = [collection |-> <<>>, index |-> 0]
    /\ scene = <<>>
    /\ IdleExport

\* AddNewToCollection.execute
AddNewToCollection ==
    /\ op = "list"
    /\ Len(exporter.collection) < MaxItems
    /\ exporter' = [exporter EXCEPT !.collection = add(@)]
    /\ call' = [fn |-> "add"]
    /\ UNCHANGED <<op, pc, ret, scene, idx, all_frames, final, final_header,
                   cvars, files, error>>

\* RemoveFromCollection.execute
RemoveFromCollection ==
    /\ op = "list"
    /\ poll(exporter.collection)
    /\ \E collection \in {remove(exporter.collection, exporter.index)} :
          exporter' = [collection |-> collection,
                       index |-> index_after_remove(exporter.index,
                                                    Len(collection))]
    /\ call' = [fn |-> "remove"]
    /\ UNCHANGED <<op, pc, ret, scene, idx, all_frames, final, final_header,
                   cvars, files, error>>

\* MoveItemInCollection.execute
MoveItemInCollection ==
    /\ op = "list"
    /\ poll(exporter.collection)
    /\ \E direction \in {"UP", "DOWN"} :
          \E collection \in {move(exporter.collection,
                                  exporter.index + step_of(direction),
                                  exporter.index)} :
             exporter' = [collection |-> collection,
                          index |-> move_index(collection, exporter.index,
                                               direction)]
    /\ call' = [fn |-> "move"]
    /\ UNCHANGED <<op, pc, ret, scene, idx, all_frames, final, final_header,
                   cvars, files, error>>

NextList == AddNewToCollection \/ RemoveFromCollection \/ MoveItemInCollection

SpecList == InitList /\ [][NextList]_vars

(***************************************************************************)
(* Properties                                                              *)
(***************************************************************************)
S16Range == S16_MIN..S16_MAX

Emitted == { cvars[i] : i \in 1..Len(cvars) }

RECURSIVE MixedLevel(_)
\* a plain (non-struct) list holds a Rotation next to a position or scale
\* vector, at this level or below
MixedLevel(value) ==
    /\ IsList(value)
    /\ \/ /\ value.kind = "list"
          /\ \E i \in 1..Len(value.items) : value.items[i].kind = "N64Rotation"
          /\ \E i \in 1..Len(value.items) :
                value.items[i].kind \in {"LocationVector", "ScaleVector"}
       \/ \E i \in 1..Len(value.items) : MixedLevel(value.items[i])

RECURSIVE HasEmptyList(_)
\* the value is or contains a list without elements
HasEmptyList(value) ==
    /\ IsList(value)
    /\ \/ Len(value.items) = 0
       \/ \E i \in 1..Len(value.items) : HasEmptyList(value.items[i])

\* C1: in every export path a plain array holding a Rotation together with a
\* position or scale vector at the same level makes the export raise, and no
\* file is written: a written file never comes with such a variable
C1_MixedArrayNeverWritten ==
    files # <<>> => \A c \in Emitted : ~MixedLevel(c.var.value)

\* C2: an export that produces no data raises "nothing to export": a written
\* file always comes with at least one variable, and no variable is or holds
\* an empty array
C2_NothingToExportRaises ==
    files # <<>> =>
        /\ cvars # <<>>
        /\ \A c \in Emitted : ~HasEmptyList(c.var.value)

\* the running export has generated the text of every variable
EmissionComplete ==
    IF op = "anim" THEN pc \in {"header", "report", "done"}
                        /\ idx > scene.frame_end
    ELSE pc \in {"header", "report", "done"}
         /\ idx > Len(exporter.export_objects)

\* C3: an invocation that raised has written no file, and a file is written
\* only once the text of all variables was generated without error
C3_NoFileOnError ==
    /\ error # "" => files = <<>>
    /\ files # <<>> => (error = "" /\ EmissionComplete)

\* C3 witness: the second export object raised after the first was formatted
C3_Witness ==
    /\ op = "obj" /\ pc = "error" /\ error = "ValueError"
    /\ Len(cvars) = 1
    /\ files = <<>>

\* C4: an export with an empty object list, an empty path, an empty name for
\* an emitted variable, or no property selected for the exported data raises
\* and emits nothing: a written file implies none of these
C4_InvalidConfigurationRaises ==
    files # <<>> =>
        /\ Len(exporter.export_objects) > 0
        /\ exporter.export_path # ""
        /\ IF op = "anim"
           THEN /\ exporter.export_variable # ""
                /\ exporter.translation \/ exporter.rotation \/ exporter.scale
           ELSE \A i \in 1..Len(exporter.export_objects) :
                   LET e == exporter.export_objects[i]
                   IN  e.obj # NoObj =>
                          /\ e.var_name # ""
                          /\ \/ e.export_props.translation
                             \/ e.export_props.rotation
                             \/ e.export_props.scale

\* C5: in an s16 export every literal written for a position or scale
\* component lies in the signed 16-bit range, or nothing is written
C5_S16LiteralsInRange ==
    (exporter.data_type = "s16" /\ files # <<>>) =>
        \A c \in Emitted : \A k \in 1..Len(c.leaves) :
            c.leaves[k].kind \in {"LocationVector", "ScaleVector"}
                => c.leaves[k].n \in S16Range

\* C6: Signed16 formatting accepts exactly the inputs in [-32768, 32767],
\* whatever the scale; with scale 1 and hex off 32767 is rendered right
\* justified in a field of width 8, and so is -32768
C6_S16AcceptsExactlyRange ==
    (op = "fmt" /\ pc = "ret" /\ call.fn = "s16") =>
        /\ ret.ok <=> (Fx(-32768) <= call.val /\ call.val <= Fx(32767))
        /\ (call.scale = 1 /\ ~call.fmt_hex /\ call.val = Fx(32767))
              => ret.s = "   32767"
        /\ (call.scale = 1 /\ ~call.fmt_hex /\ call.val = Fx(-32768))
              => ret.s = "  -32768"
        /\ call.val \in {Fx(32768), Fx(-32769)} => ~ret.ok

\* C6 witness: 32767 was formatted with scale 1, hex off
C6_Witness ==
    /\ op = "fmt" /\ pc = "ret" /\ call.fn = "s16"
    /\ call.scale = 1 /\ ~call.fmt_hex /\ call.val = Fx(32767)
    /\ ret.ok

\* a single object "A" at host position (1, 2, 3), translation only, f32,
\* scale 1, exported by either operator, and its variable was emitted
C7_Case ==
    /\ exporter.data_type = "f32"
    /\ scene.scale = 1
    /\ scene.loc = <<Fx(1), Fx(2), Fx(3)>>
    /\ Len(exporter.export_objects) = 1
    /\ IF op = "anim"
       THEN /\ exporter.export_objects[1] = "A"
            /\ scene.frame_start = 1 /\ scene.frame_end = 1
            /\ exporter.translation /\ ~exporter.rotation /\ ~exporter.scale
       ELSE /\ exporter.export_objects[1].obj = "A"
            /\ exporter.export_objects[1].export_props.translation
            /\ ~exporter.export_objects[1].export_props.rotation
            /\ ~exporter.export_objects[1].export_props.scale
            /\ ~exporter.export_objects[1].export_props.as_struct
    /\ Len(cvars) = 1

LeafStrings(c) == [k \in 1..Len(c.leaves) |-> c.leaves[k].s]

\* C7 as claimed: the three components emitted are 1, -3, 2 in that order
C7_EmitsOneMinusThreeTwo ==
    C7_Case => LeafStrings(cvars[1]) =
                  << format_f32(Fx(1), 1, FALSE).s,
                     format_f32(Fx(-3), 1, FALSE).s,
                     format_f32(Fx(2), 1, FALSE).s >>

\* C7 amended: the three components emitted are 1, 3, -2 in that order, each
\* with 10 fractional digits and an f suffix
C7_EmitsOneThreeMinusTwo ==
    C7_Case => LeafStrings(cvars[1]) =
                  << "    1.0000000000f", "    3.0000000000f",
                     "   -2.0000000000f" >>

\* C7 witness: such an export ran to its end
C7_Witness == C7_Case /\ pc = "done" /\ Len(files) > 0

\* C8: the position remap maps (x, y, z) to (x, z, -y), and applied twice
\* to (x, -y, -z)
C8_RemapAndTwice ==
    (op = "vec" /\ call.fn = "LocationVector") =>
        /\ pc = "ret"  => ret = <<call.v[1], call.v[3], -call.v[2]>>
        /\ pc = "ret2" => ret = <<call.v[1], -call.v[2], -call.v[3]>>

\* C8 witness: the remap was applied twice to a vector off the x axis
C8_Witness ==
    /\ op = "vec" /\ call.fn = "LocationVector" /\ pc = "ret2"
    /\ call.v[2] # 0 /\ call.v[3] # 0 /\ call.v[2] # call.v[3]

\* C9: a scale vector (x, y, z) maps to (x, z, y), no component changes
\* sign, whereas a position vector with the same components maps to
\* (x, z, -y)
C9_ScaleExchangesYZ ==
    (op = "vec" /\ pc = "ret") =>
        IF call.fn = "ScaleVector"
        THEN ret = <<call.v[1], call.v[3], call.v[2]>>
        ELSE ret = <<call.v[1], call.v[3], -call.v[2]>>

\* C9 witness: a scale vector with a non-zero y was transformed
C9_Witness ==
    /\ op = "vec" /\ pc = "ret" /\ call.fn = "ScaleVector"
    /\ call.v[2] > 0 /\ call.v[3] > 0 /\ call.v[2] # call.v[3]

\* C10: no variable emitted by an animation export, combined or separated,
\* has an array dimension of length 1
C10_NoUnitDimension ==
    op = "anim" =>
        \A c \in Emitted : \A k \in 1..Len(c.var.array_lengths) :
            c.var.array_lengths[k] # 1

\* the number of selected transform properties of an export entry
NumSelected(export_props) ==
    (IF export_props.translation THEN 1 ELSE 0)
      + (IF export_props.rotation THEN 1 ELSE 0)
      + (IF export_props.scale THEN 1 ELSE 0)

\* every entry of the object export has struct wrapping off and exactly one
\* of translation, rotation, scale selected
C11_Case ==
    /\ op = "obj"
    /\ \A i \in 1..Len(exporter.export_objects) :
          /\ ~exporter.export_objects[i].export_props.as_struct
          /\ NumSelected(exporter.export_objects[i].export_props) = 1

\* C11: in object export an object with struct wrapping off and exactly one
\* transform property selected is emitted as a bare 3-vector with the single
\* dimension [3], whatever its custom-property list holds
C11_SingleVectorIsBare ==
    C11_Case => \A c \in Emitted : c.var.array_lengths = <<3>>

\* translation only, separated, over at least two frames, with an object
\* assigned, and the export got past its validation
C12_Case ==
    /\ op = "anim"
    /\ exporter.separate_values
    /\ exporter.translation /\ ~exporter.rotation /\ ~exporter.scale
    /\ scene.frame_end - scene.frame_start + 1 >= 2
    /\ \E i \in 1..Len(exporter.export_objects) :
          exporter.export_objects[i] # NoObj
    /\ pc \in {"write", "header", "report", "done", "error"}
    /\ all_frames # <<>>

\* the host scene with its frame cursor on frame f
SceneAt(f) == [scene EXCEPT !.frame_current = f]

\* the positions of the export objects at the given frame, as unpack returns
\* them
PosAtFrame(f) == unpack(frame_gather(exporter, SceneAt(f)))[1]

NumFrames ==
    IF scene.frame_end >= scene.frame_start
    THEN scene.frame_end - scene.frame_start + 1 ELSE 0

\* what the emitted frame sequence may hold for frame f: the flattened data
\* of the frame, or one of its unpacked property lists
FrameEntries(f) ==
    IF exporter.separate_values
    THEN { unpack(frame_gather(exporter, SceneAt(f)))[k] : k \in 1..3 }
    ELSE { flatten(frame_gather(exporter, SceneAt(f))) }

\* the frames gathered so far are those of start, start+1, ... in this order,
\* the cursor is on the last of them, and the emitted sequences hold, at
\* position i, the data of frame start+i-1
FramesInOrder ==
    (op = "anim" /\ pc # "start") =>
        /\ Len(all_frames) = idx - scene.frame_start
        /\ Len(all_frames) <= NumFrames
        /\ \A i \in 1..Len(all_frames) :
              all_frames[i]
                 = frame_gather(exporter, SceneAt(scene.frame_start + i - 1))
        /\ Len(all_frames) > 0 =>
              scene.frame_current = scene.frame_start + Len(all_frames) - 1
        /\ pc \in {"write", "header", "report", "done"} =>
              /\ Len(all_frames) = NumFrames
              /\ \A c \in Emitted :
                    IF NumFrames = 1 /\ ~exporter.separate_values
                    THEN c.var.value \in FrameEntries(scene.frame_start)
                    ELSE /\ Len(c.var.value.items) = NumFrames
                         /\ \A i \in 1..NumFrames :
                               c.var.value.items[i]
                                  \in FrameEntries(scene.frame_start + i - 1)

\* the cursor moves only in a step that gathers a frame, and that step puts
\* it on the next frame of the range and reads the objects there
FrameStep ==
    op = "anim" =>
        /\ scene'.frame_current # scene.frame_current
              => all_frames' # all_frames
        /\ all_frames' # all_frames =>
              /\ scene'.frame_current = scene.frame_start + Len(all_frames)
              /\ scene'.frame_current <= scene.frame_end
              /\ all_frames' = Append(all_frames,
                                      frame_gather(exporter, scene'))

\* C13: during an animation export the frame cursor is set to start,
\* start+1, ..., end in increasing order, each frame once; the transforms of
\* a frame are read while the cursor is on it; and entry i of the emitted
\* frame sequence holds the data read at frame start+i
C13_FramesInOrder == []FramesInOrder /\ [][FrameStep]_vars

\* C13 witness: an export of translations over frames 1..MaxFrame finished
C13_Witness ==
    /\ op = "anim" /\ pc = "done" /\ exporter.translation
    /\ scene.frame_start = 1 /\ scene.frame_end = MaxFrame
    /\ Len(all_frames) = MaxFrame /\ cvars # <<>>

\* the messages of the validation of the animation export
ValidationErrors ==
    { "PluginError: No objects set for export.",
      "PluginError: Must supply an export path.",
      "PluginError: Must supply a variable name.",
      "PluginError: Must export one value between translation, scale, and rotation." }

\* an animation export that passed validation over a non-empty range has
\* ended with the cursor on the last frame
CursorAtEnd ==
    (op = "anim" /\ pc \in {"done", "error"} /\ error \notin ValidationErrors
        /\ scene.frame_start <= scene.frame_end)
      => scene.frame_current = scene.frame_end

\* a step that fails validation leaves the cursor where it was
CursorKeptOnInvalid ==
    (op = "anim" /\ pc' = "error" /\ error' \in ValidationErrors)
      => scene'.frame_current = scene.frame_current

\* C14: the animation export leaves the frame cursor unchanged when its
\* validation fails, and on the last frame of the range once validation has
\* passed with start <= end, whether it then succeeds or raises
C14_CursorDefined == []CursorAtEnd /\ [][CursorKeptOnInvalid]_vars

\* C14 witness: an export over frames 2..MaxFrame raised while formatting,
\* with the cursor on MaxFrame
C14_Witness ==
    /\ op = "anim" /\ pc = "error" /\ error \notin ValidationErrors
    /\ scene.frame_start <= scene.frame_end
    /\ scene.frame_current = MaxFrame /\ MaxFrame # 1

\* the header files written so far
HeaderFiles == { files[i] : i \in { j \in 1..Len(files) : files[j].name = "frames.h" } }

\* the extern declarations of the emitted variables, in emission order
ExternLines == [i \in 1..Len(cvars) |-> cvars[i].extern]

\* the header texts the layout allows for the given extern lines: pragma,
\* include, one or two blank lines, the extern lines, with or without a
\* final newline
HeaderTexts(externs) ==
    { JoinStr(<<"#pragma once", "#include \"types.h\"">> \o blanks \o externs,
              "\n") \o last :
        blanks \in { <<"">>, <<"", "">> }, last \in { "", "\n" } }

\* C15: every header file written by either export is '#pragma once', then
\* '#include "types.h"', then a blank line, then one 'extern <decl>;' line per
\* exported variable in the order of the definitions
C15_HeaderLayout ==
    \A h \in HeaderFiles : h.text \in HeaderTexts(ExternLines)

\* the text "[n]" of every given length, in order
DimsText(lengths) ==
    JoinStr([i \in 1..Len(lengths) |->
                "[" \o NatStr(lengths[i], 10, DecDigits) \o "]"], "")

\* C16: for every emitted variable the header's extern declaration is
\* 'extern ' followed by the very declaration (C type, name, dimensions) that
\* starts the variable's definition, and making the extern text after the
\* definition leaves the recorded dimensions as they were
C16_ExternMatchesDefinition ==
    \A c \in Emitted :
        /\ c.dec = c.defined.c_typedef \o " " \o c.defined.var_name
                      \o DimsText(c.defined.array_lengths)
        /\ c.def = c.dec \o " = " \o c.body \o ";\n"
        /\ c.extern = "extern " \o c.dec \o ";"
        /\ c.var.array_lengths = c.defined.array_lengths
        /\ c.var.array_depth = c.defined.array_depth
        /\ c.var.c_typedef = c.defined.c_typedef

\* C16 witness: a struct variable and a variable with several dimensions were
\* emitted with their extern declarations
C16_Witness ==
    /\ \E c \in Emitted : c.var.struct_start = 0 /\ Len(c.walked.array_lengths) > 1
    /\ pc = "done"

\* the one-line rendering '{ a, b, ... }' of the given element texts
OneLine(elems) == "{ " \o JoinStr(elems, ", ") \o " }"

RECURSIVE Lines(_, _, _)
\* the element texts from i on, each on a line of its own behind the indent,
\* followed by a comma
Lines(elems, indent, i) ==
    IF i > Len(elems) THEN ""
    ELSE "\n" \o indent \o elems[i] \o "," \o Lines(elems, indent, i + 1)

\* the rendering with one element per line, the closing brace at the margin
PerLine(elems, margin) ==
    "{" \o Lines(elems, margin \o "    ", 1) \o "\n" \o margin \o "}"

\* the texts of the children of a sequence walked at the given depth
ChildTexts(self, value, depth) ==
    [i \in 1..Len(value.items) |->
        format_nested(self, value.items[i], depth + 1).out]

RECURSIVE RenderedInOrder(_, _, _)
\* every sequence at or below value, walked at the given depth, is rendered
\* from the texts of its children in their order: one per line when the
\* one-line rendering is longer than 80 characters, else either way; and the
\* dimension recorded for that depth is the number of children
RenderedInOrder(self, value, depth) ==
    IsList(value) =>
        /\ LET r     == format_nested(self, value, depth)
               elems == ChildTexts(self, value, depth)
           IN  /\ Len(OneLine(elems)) > 80
                     => r.out = PerLine(elems, tabs(depth))
               /\ r.out \in { tabs(depth - 1) \o OneLine(elems),
                              PerLine(elems, tabs(depth)) }
               /\ r.self.array_lengths[depth + 1] = Len(value.items)
        /\ \A i \in 1..Len(value.items) :
              RenderedInOrder(self, value.items[i], depth + 1)

\* C17: an array whose one-line rendering is longer than 80 characters is
\* rendered with one element per line, each followed by a comma; either
\* rendering holds exactly the formatted children, each once, in input order,
\* and the dimension recorded at that depth is the number of children
C17_WrapKeepsElements ==
    pc = "header" =>
        \A c \in Emitted :
            /\ c.body = format_nested(c.walked, c.var.value, 0).out
            /\ IsList(c.var.value)
                  => c.walked.array_lengths[1] = Len(c.var.value.items)
            /\ RenderedInOrder(c.walked, c.var.value, 0)

\* C17 witness: a variable was emitted whose top-level array is rendered one
\* element per line and holds an array rendered on one line
C17_Witness ==
    /\ pc = "header"
    /\ \E c \in Emitted :
          /\ IsList(c.var.value)
          /\ Len(OneLine(ChildTexts(c.walked, c.var.value, 0))) > 80
          /\ \E i \in 1..Len(c.var.value.items) :
                /\ IsList(c.var.value.items[i])
                /\ Len(OneLine(ChildTexts(c.walked, c.var.value.items[i], 1)))
                      <= 80

RECURSIVE Shape(_)
\* the lengths of the nesting depths of a value, outermost first, along its
\* first elements; a vector ends them with 3
Shape(value) ==
    IF IsVector(value) THEN <<3>>
    ELSE IF IsList(value)
    THEN <<Len(value.items)>>
            \o (IF Len(value.items) = 0 THEN <<>> ELSE Shape(value.items[1]))
    ELSE <<>>

RECURSIVE Regular(_)
\* all elements of every sequence of the value have the same shape
Regular(value) ==
    IsList(value) =>
        \A i \in 1..Len(value.items) :
            /\ Shape(value.items[i]) = Shape(value.items[1])
            /\ Regular(value.items[i])

RECURSIVE StructPaths(_)
\* for every struct in the value, the lengths of the sequences enclosing it,
\* outermost first
StructPaths(value) ==
    IF ~IsList(value) THEN {}
    ELSE (IF value.kind = "CStruct" THEN {<<>>} ELSE {})
           \cup { <<Len(value.items)>> \o p :
                    p \in UNION { StructPaths(value.items[i]) :
                                    i \in 1..Len(value.items) } }

\* C18: after the walk of a value tree the declaration is
\* '<ctype> <name><dims>': without a struct, the C type is the data type's
\* and <dims> lists the length recorded for every depth, outermost first
\* (the lengths of the value's shape, ending with 3 for vectors); with a
\* struct met at depth d, the C type is the struct's type name and <dims>
\* lists the lengths of the d enclosing sequences only, none for a top-level
\* struct
C18_DeclarationDims ==
    (op = "emit" /\ pc = "ret" /\ ret.ok) =>
        IF StructPaths(call.value) = {}
        THEN /\ ret.dec = c_typedef_of(call.dt) \o " v"
                             \o DimsText(ret.walked.array_lengths)
             /\ Regular(call.value)
                   => ret.walked.array_lengths = Shape(call.value)
        ELSE /\ \E p \in StructPaths(call.value) :
                   ret.dec = "struct MyStruct v" \o DimsText(p)
             /\ call.value.kind = "CStruct" => ret.dec = "struct MyStruct v"

\* C18 witness: the declaration of an array of two structs was made
C18_Witness ==
    /\ op = "emit" /\ pc = "ret" /\ ret.ok
    /\ call.value.kind = "list" /\ Len(call.value.items) = 2
    /\ \A i \in 1..2 : call.value.items[i].kind = "CStruct"
    /\ ret.dec = "struct MyStruct v[2]"

RECURSIVE ExpectedLiterals(_, _, _)
\* the literals of a value in walk order, as [s, n], when the engine scale
\* multiplies the components of position vectors and nothing else
ExpectedLiterals(value, scale, fmt_hex) ==
    IF IsVector(value)
    THEN [i \in 1..3 |->
            LET lit == formatter(value.dt, to_n64(value)[i],
                                 IF value.kind = "LocationVector"
                                 THEN scale ELSE 1,
                                 fmt_hex)
            IN  [s |-> lit.s, n |-> lit.n]]
    ELSE IF IsList(value)
    THEN IF Len(value.items) = 0 THEN <<>>
         ELSE ExpectedLiterals(value.items[1], scale, fmt_hex)
                 \o ExpectedLiterals([value EXCEPT !.items = Tail(@)],
                                     scale, fmt_hex)
    ELSE <<[s |-> value.s, n |-> 0]>>

\* C19: the engine scale multiplies the components of Position vectors only;
\* Scale vectors, Rotations and literal leaves are written as with scale 1,
\* whatever the engine scale is
C19_ScaleOnlyOnPositions ==
    (op = "emit" /\ pc = "ret" /\ ret.ok) =>
        [k \in 1..Len(ret.leaves) |->
            [s |-> ret.leaves[k].s, n |-> ret.leaves[k].n]]
          = ExpectedLiterals(call.value, scene.scale, call.dt = "s16")

\* C19 witness: with engine scale 100 an s16 array of a position vector and a
\* scale vector with the same components was written, the position scaled by
\* 100 and the scale vector not
C19_Witness ==
    /\ op = "emit" /\ pc = "ret" /\ ret.ok
    /\ scene.scale = 100 /\ call.dt = "s16"
    /\ call.value.kind = "list" /\ Len(call.value.items) = 2
    /\ call.value.items[1].kind = "LocationVector"
    /\ call.value.items[2].kind = "ScaleVector"
    /\ ret.leaves[1].n = 100 /\ ret.leaves[4].n = 1

\* C20: every literal written for a Rotation component is a signed 16-bit
\* value
C20_RotationLiteralsInS16 ==
    \A c \in Emitted : \A k \in 1..Len(c.leaves) :
        c.leaves[k].kind = "N64Rotation" => c.leaves[k].n \in S16Range

\* all literals of the emitted variable are Rotation components
OnlyRotations(c) ==
    /\ Len(c.leaves) > 0
    /\ \A k \in 1..Len(c.leaves) : c.leaves[k].kind = "N64Rotation"

\* C21: a variable all of whose leaves are Rotations is declared with the C
\* type s16, whatever data type is selected for the export
C21_RotationsDeclaredS16 ==
    \A c \in Emitted :
        OnlyRotations(c) =>
            /\ c.defined.c_typedef = "s16"
            /\ c.dec = "s16 " \o c.defined.var_name
                          \o DimsText(c.defined.array_lengths)

\* C22: register() followed by unregister() is a round trip: when
\* unregister() has ended, it did not raise, no class of the add-on is
\* registered any more, none was registered again while registered, and the
\* Scene attribute is gone, which is the state the first register() started
\* from
C22_RegisterRoundTrip ==
    (op = "reg" /\ pc = "idle" /\ call.fn = "unregister") =>
        /\ error = ""
        /\ scene = [registered |-> {}, again |-> {}, attr |-> FALSE]

\* the active index is 0 for an empty collection, else the index of an item
IndexInRange ==
    op = "list" =>
        IF Len(exporter.collection) = 0 THEN exporter.index = 0
        ELSE exporter.index \in 0..(Len(exporter.collection) - 1)

\* a move keeps the number of items, a removal takes exactly one away
MoveAndRemoveLengths ==
    op = "list" =>
        /\ call'.fn = "move"
              => Len(exporter'.collection) = Len(exporter.collection)
        /\ call'.fn = "remove"
              => Len(exporter'.collection) = Len(exporter.collection) - 1

\* an add keeps the number of items
AddKeepsLength ==
    (op = "list" /\ call'.fn = "add")
        => Len(exporter'.collection) = Len(exporter.collection)

\* an add appends exactly one item and keeps the others in place
AddAppendsOne ==
    (op = "list" /\ call'.fn = "add")
        => /\ Len(exporter'.collection) = Len(exporter.collection) + 1
           /\ SubSeq(exporter'.collection, 1, Len(exporter.collection))
                 = exporter.collection
           /\ exporter'.index = exporter.index

\* C23 as claimed: after any sequence of add, remove and move the active
\* index is 0 for an empty collection and else within [0, length-1]; add and
\* move never change the number of items and remove decreases it by one
C23_IndexAndLengths ==
    /\ []IndexInRange
    /\ [][MoveAndRemoveLengths /\ AddKeepsLength]_vars

\* C23 amended: the active index is 0 for an empty collection and else
\* within [0, length-1]; add increases the number of items by exactly one,
\* move never changes it and remove decreases it by exactly one
C23_IndexAndLengthsAddGrows ==
    /\ []IndexInRange
    /\ [][MoveAndRemoveLengths /\ AddAppendsOne]_vars

\* C23 witness: the last of several items was removed while it was active,
\* after a move had reordered the items
C23_Witness ==
    /\ op = "list" /\ call.fn = "remove"
    /\ Len(exporter.collection) = MaxItems - 1
    /\ exporter.index = Len(exporter.collection) - 1
    /\ exporter.collection # [i \in 1..Len(exporter.collection) |-> i]

====
